---- MODULE Spec2Model ----
(***************************************************************************)
(* Medical cabinet: PatientService and ConsultationService sharing one     *)
(* JSON data file and one action log.  One PatientService `ps` and one     *)
(* ConsultationService `cs` built on it, as main() constructs them, on a   *)
(* data directory that is fresh or holds the file of an earlier session.   *)
(* utils/validators.py does not compile (a __future__ import after other   *)
(* imports), so both services run with their fallback log_action wrapper.  *)
(***************************************************************************)
EXTENDS Integers, Sequences, FiniteSets, TLC

\* ------------------------------------------------------------------ bounds
\* Lines the session may append to the action log: every successful mutating
\* call writes one, so this bounds the number of such calls in a run.
MaxLog == 2

\* Writes to the action log that fail in a run where logs.txt is not always
\* writable.
MaxLogFaults == 1

\* Prescriptions appended to one Consultation object.
MaxPrescriptions == 2

\* ----------------------------------------------------------------- strings
\* Strings the code inspects character by character are sequences of
\* one-character strings; the others are opaque.
AsciiDigit == {"0", "1", "2", "3", "4", "5", "6", "7", "8", "9"}

\* Non-ASCII characters for which str.isdigit() is true (SUPERSCRIPT TWO).
OtherDigit == {"U+00B2"}

DigitChars == <<"0", "1", "2", "3", "4", "5", "6", "7", "8", "9">>

\* isdigit as a check of the length alone would leave it: any character passes.
isdigit_any_character(s) == Len(s) > 0

\* str.isdigit(): non-empty and every character is a digit character.
isdigit(s) == Len(s) > 0 /\ \A i \in 1..Len(s) : s[i] \in AsciiDigit \cup OtherDigit

\* Code point order of the characters that occur in ISO date-times.
CharCode(c) ==
    CASE c = "-" -> 45
      [] c = "0" -> 48 [] c = "1" -> 49 [] c = "2" -> 50 [] c = "3" -> 51
      [] c = "4" -> 52 [] c = "5" -> 53 [] c = "6" -> 54 [] c = "7" -> 55
      [] c = "8" -> 56 [] c = "9" -> 57
      [] c = ":" -> 58
      [] c = "T" -> 84

\* Python's str `<` : lexicographic by code point, a proper prefix first.
RECURSIVE StrLess(_, _)
StrLess(a, b) ==
    IF Len(b) = 0 THEN FALSE
    ELSE IF Len(a) = 0 THEN TRUE
    ELSE IF CharCode(Head(a)) # CharCode(Head(b))
         THEN CharCode(Head(a)) < CharCode(Head(b))
    ELSE StrLess(Tail(a), Tail(b))

TwoDigits(n) == <<DigitChars[(n \div 10) + 1], DigitChars[(n % 10) + 1]>>

DigitValue(c) == CHOOSE d \in 0..9 : DigitChars[d + 1] = c

\* A datetime is the hour h of 2030-01-01 (naive, minutes and seconds 0).
\* datetime.isoformat(): "2030-01-01THH:00:00".
isoformat(h) ==
    <<"2", "0", "3", "0", "-", "0", "1", "-", "0", "1", "T">>
        \o TwoDigits(h) \o <<":", "0", "0", ":", "0", "0">>

\* A date is <<year, month, day>>; date.isoformat(): "YYYY-MM-DD".
date_isoformat(d) ==
    TwoDigits(d[1] \div 100) \o TwoDigits(d[1] % 100) \o <<"-">>
        \o TwoDigits(d[2]) \o <<"-">> \o TwoDigits(d[3])

TwoDigitsValue(s, i) == DigitValue(s[i]) * 10 + DigitValue(s[i + 1])

\* date.fromisoformat() on such a string.
date_fromisoformat(s) ==
    <<TwoDigitsValue(s, 1) * 100 + TwoDigitsValue(s, 3), TwoDigitsValue(s, 6),
      TwoDigitsValue(s, 9)>>

\* datetime.fromisoformat() on such a string.
fromisoformat(s) == TwoDigitsValue(s, 12)

\* ------------------------------------------------------------------ inputs
\* Hours of 2030-01-01 used as consultation date-times and as "now".
Instants == {9, 10}

Rep(c, n) == [i \in 1..n |-> c]

NumA == <<"1", "2", "3", "4", "5", "6", "7", "8", "9", "0", "1", "2", "3", "4", "5">>
NumB == Rep("2", 15)
NumUnicode == Rep("7", 14) \o <<"U+00B2">>
NumShort == Rep("1", 14)
NumLong == Rep("1", 16)
NumAlpha == Rep("1", 14) \o <<"a">>
NumEmpty == <<>>

SecurityNumbers == {NumA, NumB, NumUnicode, NumShort, NumLong, NumAlpha, NumEmpty}

\* Numbers looked up: of stored patients, well-formed but absent, malformed.
LookupNumbers == {NumA, NumB, NumUnicode, NumAlpha}

\* Patient(num_secu, nom, prenom, date_naissance, adresse, telephone): a new
\* Patient has an empty consultation list.
Patient(num_secu, nom, prenom, date_naissance, adresse, telephone) ==
    [numero_secu |-> num_secu, nom |-> nom, prenom |-> prenom,
     date_naissance |-> date_naissance, adresse |-> adresse,
     telephone |-> telephone, consultations |-> <<>>]

PatientInputs ==
    {Patient(n, "Durand", "Alice", <<1980, 2, 29>>, "1 rue A", "0102030405") :
        n \in SecurityNumbers \ {NumB}}
    \cup {Patient(NumA, "Martin", "Bob", <<2001, 11, 5>>, "", "")}

Medecins == {"Dr House"}
Motifs == {"toux"}
Diagnostics == {"flu", "angine"}

None == "None"

\* ---------------------------------------------------------- prescriptions
PrescriptionMedicamenteuse(medicament, dosage, frequence, duree) ==
    [class |-> "PrescriptionMedicamenteuse", description |-> medicament,
     posologie |-> dosage, duree |-> duree, frequence |-> frequence]

PrescriptionExamen(type_examen, laboratoire) ==
    [class |-> "PrescriptionExamen", description |-> type_examen,
     posologie |-> "n/a", duree |-> "n/a", laboratoire |-> laboratoire]

PrescriptionInputs ==
    {PrescriptionMedicamenteuse("doliprane", "1g", "3/jour", "5 jours"),
     PrescriptionExamen("radio", None)}

_serialize_prescription(presc) ==
    [_type |-> presc.class, description |-> presc.description,
     posologie |-> presc.posologie, duree |-> presc.duree]

\* ------------------------------------------------------------------- state
VARIABLES
    patients,       \* ps.patients: insertion-ordered dict, as a sequence of Patient
    consultations,  \* cs.consultations: list of consultation dicts
    file,           \* content of data/cabinet_data.json
    log,            \* logs.txt: the function name of each line
    logFaults,      \* writes to logs.txt that will still fail (OSError)
    entity,         \* a models.Consultation object, used apart from the services
    result          \* the last call and its outcome

vars == <<patients, consultations, file, log, logFaults, entity, result>>

STATUS_PLANIFIEE == "planifiée"
STATUS_REALISEE == "réalisée"
STATUS_ANNULEE == "annulée"

\* Ids a caller may pass: those of the consultations and one that none has.
ConsultationIds == 1..(Len(consultations) + 1)

Ok == "ok"

\* ret is <<>> for None, <<v>> for a returned object, the list for a returned list.
Outcome(op, err, ret) == [op |-> op, err |-> err, ret |-> ret]

\* -------------------------------------------------------------- dict, list
\* Index of key k in the dict d (0 when absent).
DictIndex(d, k) ==
    IF \E i \in 1..Len(d) : d[i].numero_secu = k
    THEN CHOOSE i \in 1..Len(d) : d[i].numero_secu = k
    ELSE 0

\* DictSet as dict.setdefault: an existing key keeps its old value.
DictSet_setdefault(d, k, v) ==
    IF DictIndex(d, k) # 0 THEN d ELSE Append(d, v)

\* DictSet as list.append: an existing key gets a second entry.
DictSet_append_always(d, k, v) == Append(d, v)

\* DictSet as pop then insert: an existing key moves to the end.
DictSet_move_to_end(d, k, v) ==
    Append(SelectSeq(d, LAMBDA e : e.numero_secu # k), v)

\* d[k] = v : an existing key keeps its position, a new key goes last.
DictSet(d, k, v) ==
    IF DictIndex(d, k) # 0 THEN [d EXCEPT ![DictIndex(d, k)] = v] ELSE Append(d, v)

\* ---------------------------------------------------------- PatientService
PatientJson(p) ==
    [numero_secu |-> p.numero_secu, nom |-> p.nom, prenom |-> p.prenom,
     date_naissance |-> date_isoformat(p.date_naissance),
     adresse |-> p.adresse, telephone |-> p.telephone]

_dump_empty == [patients |-> <<>>, consultations |-> <<>>]

\* PatientService._save without the read of the existing file: no snapshot
\* supplied means no consultations written.
PatientService_save_no_merge(pats, consultations_serialized, f) ==
    [patients |-> [i \in 1..Len(pats) |-> PatientJson(pats[i])],
     consultations |-> IF consultations_serialized # <<>>
                       THEN consultations_serialized[1]
                       ELSE <<>>]

\* PatientService._save(consultations_serialized): the argument is <<list>>
\* when given and <<>> when None; f is the file content before the write.
PatientService_save(pats, consultations_serialized, f) ==
    [patients |-> [i \in 1..Len(pats) |-> PatientJson(pats[i])],
     consultations |-> IF consultations_serialized # <<>>
                       THEN consultations_serialized[1]
                       ELSE f.consultations]

\* PatientService._load rebuilding a patient from the required fields only.
PatientService_load_required_only(f) ==
    [i \in 1..Len(f.patients) |->
        Patient(f.patients[i].numero_secu, f.patients[i].nom, f.patients[i].prenom,
                date_fromisoformat(f.patients[i].date_naissance), "", "")]

\* PatientService._load on the file content f.
PatientService_load(f) ==
    [i \in 1..Len(f.patients) |->
        Patient(f.patients[i].numero_secu, f.patients[i].nom, f.patients[i].prenom,
                date_fromisoformat(f.patients[i].date_naissance),
                f.patients[i].adresse, f.patients[i].telephone)]

\* Index of the patient in the store, 0 for PatientNotFoundError.
rechercher_patient(numero_secu) == DictIndex(patients, numero_secu)

lister_patients == patients

\* rechercher without the test of what dict.get returned: None comes back.
rechercher_returns_none(numero_secu) ==
    LET i == rechercher_patient(numero_secu) IN
    /\ result' = IF i = 0
                 THEN Outcome("rechercher_patient", Ok, <<>>)
                 ELSE Outcome("rechercher_patient", Ok, <<patients[i]>>)
    /\ UNCHANGED <<patients, consultations, file, log, logFaults, entity>>

rechercher(numero_secu) ==
    LET i == rechercher_patient(numero_secu) IN
    /\ result' = IF i = 0
                 THEN Outcome("rechercher_patient", "PatientNotFoundError", <<>>)
                 ELSE Outcome("rechercher_patient", Ok, <<patients[i]>>)
    /\ UNCHANGED <<patients, consultations, file, log, logFaults, entity>>

\* open(LOG_FILE, "a") and write once the wrapped call has returned: the line
\* is appended (written), or the open or the write raises OSError.
LogWrite(name, written) ==
    IF written
    THEN /\ Len(log) < MaxLog
         /\ log' = Append(log, name)
         /\ UNCHANGED logFaults
    ELSE /\ logFaults > 0
         /\ logFaults' = logFaults - 1
         /\ UNCHANGED log

ajouter_patient(patient) ==
    LET num == patient.numero_secu IN
    IF ~(isdigit(num) /\ Len(num) = 15)
    THEN /\ result' = Outcome("ajouter_patient", "InvalidSecurityNumberError", <<>>)
         /\ UNCHANGED <<patients, consultations, file, log, logFaults, entity>>
    ELSE /\ patients' = DictSet(patients, num, patient)
         /\ file' = PatientService_save(patients', <<>>, file)
         /\ \E written \in BOOLEAN :
                /\ LogWrite("ajouter_patient", written)
                /\ result' = IF written
                             THEN Outcome("ajouter_patient", Ok, <<>>)
                             ELSE Outcome("ajouter_patient", "OSError", <<>>)
         /\ UNCHANGED <<consultations, entity>>

\* ----------------------------------------------------- ConsultationService
ConsultationService_save(pats, cons, f) == PatientService_save(pats, <<cons>>, f)

\* ConsultationService._load on the file content f.
ConsultationService_load(f) == f.consultations

\* Patient.ajouter_consultation on the patient object at index i; the list
\* holds the consultation dict itself, named here by its id.
ajouter_consultation(pats, i, cid) ==
    [pats EXCEPT ![i].consultations = Append(@, cid)]

\* _find_by_id without the raise after the loop: the last consultation the
\* loop looked at comes back when none has the id.
_find_by_id_last_seen(consultation_id) ==
    IF \E i \in 1..Len(consultations) : consultations[i].id = consultation_id
    THEN CHOOSE i \in 1..Len(consultations) :
            /\ consultations[i].id = consultation_id
            /\ \A j \in 1..(i - 1) : consultations[j].id # consultation_id
    ELSE Len(consultations)

\* Index of the first consultation with that id, 0 for ConsultationNotFoundError.
_find_by_id(consultation_id) ==
    IF \E i \in 1..Len(consultations) : consultations[i].id = consultation_id
    THEN CHOOSE i \in 1..Len(consultations) :
            /\ consultations[i].id = consultation_id
            /\ \A j \in 1..(i - 1) : consultations[j].id # consultation_id
    ELSE 0

\* str(uuid.uuid4()): an id no earlier call returned.
uuid4 == Len(consultations) + 1

\* planifier_consultation appending before it looks the patient up.
planifier_consultation_append_first(patient_num, date_heure, medecin, motif) ==
    LET i == rechercher_patient(patient_num)
        c == [id |-> uuid4, patient_num |-> patient_num,
              date_heure |-> isoformat(date_heure), medecin |-> medecin,
              motif |-> motif, diagnostic |-> None, prescriptions |-> <<>>,
              statut |-> STATUS_PLANIFIEE]
    IN
    /\ consultations' = Append(consultations, c)
    /\ IF i = 0
       THEN /\ result' = Outcome("planifier_consultation", "PatientNotFoundError", <<>>)
            /\ UNCHANGED <<patients, file, log, logFaults, entity>>
       ELSE /\ patients' = ajouter_consultation(patients, i, c.id)
            /\ file' = ConsultationService_save(patients', consultations', file)
            /\ \E written \in BOOLEAN : LogWrite("planifier_consultation", written)
            /\ result' = Outcome("planifier_consultation", Ok, <<c>>)
            /\ UNCHANGED entity

\* planifier_consultation without the patient lookup: the consultation is
\* created for any number, the back-reference only when the patient exists.
planifier_consultation_no_lookup(patient_num, date_heure, medecin, motif) ==
    LET i == rechercher_patient(patient_num)
        c == [id |-> uuid4, patient_num |-> patient_num,
              date_heure |-> isoformat(date_heure), medecin |-> medecin,
              motif |-> motif, diagnostic |-> None, prescriptions |-> <<>>,
              statut |-> STATUS_PLANIFIEE]
    IN
    /\ consultations' = Append(consultations, c)
    /\ patients' = IF i = 0 THEN patients ELSE ajouter_consultation(patients, i, c.id)
    /\ file' = ConsultationService_save(patients', consultations', file)
    /\ \E written \in BOOLEAN : LogWrite("planifier_consultation", written)
    /\ result' = Outcome("planifier_consultation", Ok, <<c>>)
    /\ UNCHANGED entity

planifier_consultation(patient_num, date_heure, medecin, motif) ==
    LET i == rechercher_patient(patient_num)
        c == [id |-> uuid4, patient_num |-> patient_num,
              date_heure |-> isoformat(date_heure), medecin |-> medecin,
              motif |-> motif, diagnostic |-> None, prescriptions |-> <<>>,
              statut |-> STATUS_PLANIFIEE]
    IN
    IF i = 0
    THEN /\ result' = Outcome("planifier_consultation", "PatientNotFoundError", <<>>)
         /\ UNCHANGED <<patients, consultations, file, log, logFaults, entity>>
    ELSE /\ consultations' = Append(consultations, c)
         /\ patients' = ajouter_consultation(patients, i, c.id)
         /\ file' = ConsultationService_save(patients', consultations', file)
         /\ \E written \in BOOLEAN : LogWrite("planifier_consultation", written)
         /\ result' = Outcome("planifier_consultation", Ok, <<c>>)
         /\ UNCHANGED entity

\* Stable insertion of x into the list l sorted by date_heure (sorted()).
RECURSIVE InsertByDate(_, _)
InsertByDate(l, x) ==
    IF l = <<>> THEN <<x>>
    ELSE IF StrLess(x.date_heure, Head(l).date_heure) THEN <<x>> \o l
    ELSE <<Head(l)>> \o InsertByDate(Tail(l), x)

\* sorted left out: the list in collection order.
sorted_not(l) == l

RECURSIVE sorted(_)
sorted(l) ==
    IF l = <<>> THEN <<>>
    ELSE InsertByDate(sorted(SubSeq(l, 1, Len(l) - 1)), l[Len(l)])

\* IsUpcoming with > for >=.
IsUpcoming_strictly(c, now) ==
    /\ c.statut \in {"planifiée", "planifiee"}
    /\ fromisoformat(c.date_heure) > now

\* IsUpcoming without the status test.
IsUpcoming_any_status(c, now) == fromisoformat(c.date_heure) >= now

IsUpcoming(c, now) ==
    /\ c.statut \in {"planifiée", "planifiee"}
    /\ fromisoformat(c.date_heure) >= now

\* The value lister_consultations_a_venir() returns when self.consultations
\* is cons and datetime.now() is now.
lister_consultations_a_venir(cons, now) ==
    sorted(SelectSeq(cons, LAMBDA c : IsUpcoming(c, now)))

lister(now) ==
    /\ result' = Outcome("lister_consultations_a_venir", Ok,
                         lister_consultations_a_venir(consultations, now))
    /\ UNCHANGED <<patients, consultations, file, log, logFaults, entity>>

\* A mutator's failure: nothing but the outcome changes.
Raise(op, err) ==
    /\ result' = Outcome(op, err, <<>>)
    /\ UNCHANGED <<patients, consultations, file, log, logFaults, entity>>

\* Commit as remove then append: the consultation written moves to the end.
Commit_move_last(op, i, c) ==
    /\ consultations' =
            Append(SubSeq(consultations, 1, i - 1) \o
                   SubSeq(consultations, i + 1, Len(consultations)), c)
    /\ file' = ConsultationService_save(patients, consultations', file)
    /\ \E written \in BOOLEAN : LogWrite(op, written)
    /\ result' = Outcome(op, Ok, <<>>)
    /\ UNCHANGED <<patients, entity>>

\* A mutator's success on the consultation at index i, now equal to c.
Commit(op, i, c) ==
    /\ consultations' = [consultations EXCEPT ![i] = c]
    /\ file' = ConsultationService_save(patients, consultations', file)
    /\ \E written \in BOOLEAN : LogWrite(op, written)
    /\ result' = Outcome(op, Ok, <<>>)
    /\ UNCHANGED <<patients, entity>>

\* marquer_realisee testing against the unaccented literal.
marquer_realisee_unaccented(consultation_id) ==
    LET i == _find_by_id(consultation_id) IN
    IF i = 0 THEN Raise("marquer_realisee", "ConsultationNotFoundError")
    ELSE IF consultations[i].statut = "annulee"
         THEN Raise("marquer_realisee", "InvalidConsultationStatusError")
    ELSE Commit("marquer_realisee", i,
                [consultations[i] EXCEPT !.statut = STATUS_REALISEE])

\* marquer_realisee assigning the status before it tests it.
marquer_realisee_assign_first(consultation_id) ==
    LET i == _find_by_id(consultation_id) IN
    IF i = 0 THEN Raise("marquer_realisee", "ConsultationNotFoundError")
    ELSE IF consultations[i].statut = STATUS_ANNULEE
         THEN /\ consultations' =
                    [consultations EXCEPT ![i].statut = STATUS_REALISEE]
              /\ result' = Outcome("marquer_realisee",
                                   "InvalidConsultationStatusError", <<>>)
              /\ UNCHANGED <<patients, file, log, logFaults, entity>>
    ELSE Commit("marquer_realisee", i,
                [consultations[i] EXCEPT !.statut = STATUS_REALISEE])

\* marquer_realisee as a fresh completion: the diagnosis is reset to None.
marquer_realisee_reset_diagnostic(consultation_id) ==
    LET i == _find_by_id(consultation_id) IN
    IF i = 0 THEN Raise("marquer_realisee", "ConsultationNotFoundError")
    ELSE IF consultations[i].statut = STATUS_ANNULEE
         THEN Raise("marquer_realisee", "InvalidConsultationStatusError")
    ELSE Commit("marquer_realisee", i,
                [consultations[i] EXCEPT !.statut = STATUS_REALISEE,
                                         !.diagnostic = None])

marquer_realisee(consultation_id) ==
    LET i == _find_by_id(consultation_id) IN
    IF i = 0 THEN Raise("marquer_realisee", "ConsultationNotFoundError")
    ELSE IF consultations[i].statut = STATUS_ANNULEE
         THEN Raise("marquer_realisee", "InvalidConsultationStatusError")
    ELSE Commit("marquer_realisee", i,
                [consultations[i] EXCEPT !.statut = STATUS_REALISEE])

\* annuler_consultation without its status test.
annuler_consultation_unchecked(consultation_id) ==
    LET i == _find_by_id(consultation_id) IN
    IF i = 0 THEN Raise("annuler_consultation", "ConsultationNotFoundError")
    ELSE Commit("annuler_consultation", i,
                [consultations[i] EXCEPT !.statut = STATUS_ANNULEE])

\* annuler_consultation accepting only a scheduled consultation.
annuler_consultation_scheduled_only(consultation_id) ==
    LET i == _find_by_id(consultation_id) IN
    IF i = 0 THEN Raise("annuler_consultation", "ConsultationNotFoundError")
    ELSE IF consultations[i].statut # STATUS_PLANIFIEE
         THEN Raise("annuler_consultation", "InvalidConsultationStatusError")
    ELSE Commit("annuler_consultation", i,
                [consultations[i] EXCEPT !.statut = STATUS_ANNULEE])

annuler_consultation(consultation_id) ==
    LET i == _find_by_id(consultation_id) IN
    IF i = 0 THEN Raise("annuler_consultation", "ConsultationNotFoundError")
    ELSE IF consultations[i].statut = STATUS_REALISEE
         THEN Raise("annuler_consultation", "InvalidConsultationStatusError")
    ELSE Commit("annuler_consultation", i,
                [consultations[i] EXCEPT !.statut = STATUS_ANNULEE])

\* ajouter_diagnostic refusing only a cancelled consultation.
ajouter_diagnostic_unless_cancelled(consultation_id, diagnostic) ==
    LET i == _find_by_id(consultation_id) IN
    IF i = 0 THEN Raise("ajouter_diagnostic", "ConsultationNotFoundError")
    ELSE IF consultations[i].statut = STATUS_ANNULEE
         THEN Raise("ajouter_diagnostic", "InvalidConsultationStatusError")
    ELSE Commit("ajouter_diagnostic", i,
                [consultations[i] EXCEPT !.diagnostic = diagnostic])

\* ajouter_diagnostic without its status test.
ajouter_diagnostic_unchecked(consultation_id, diagnostic) ==
    LET i == _find_by_id(consultation_id) IN
    IF i = 0 THEN Raise("ajouter_diagnostic", "ConsultationNotFoundError")
    ELSE Commit("ajouter_diagnostic", i,
                [consultations[i] EXCEPT !.diagnostic = diagnostic])

ajouter_diagnostic(consultation_id, diagnostic) ==
    LET i == _find_by_id(consultation_id) IN
    IF i = 0 THEN Raise("ajouter_diagnostic", "ConsultationNotFoundError")
    ELSE IF consultations[i].statut # STATUS_REALISEE
         THEN Raise("ajouter_diagnostic", "InvalidConsultationStatusError")
    ELSE Commit("ajouter_diagnostic", i,
                [consultations[i] EXCEPT !.diagnostic = diagnostic])

\* ajouter_prescription as insert(0, ...): the new record goes first.
ajouter_prescription_insert_first(consultation_id, prescription) ==
    LET i == _find_by_id(consultation_id) IN
    IF i = 0 THEN Raise("ajouter_prescription", "ConsultationNotFoundError")
    ELSE Commit("ajouter_prescription", i,
                [consultations[i] EXCEPT
                    !.prescriptions = <<_serialize_prescription(prescription)>> \o @])

ajouter_prescription(consultation_id, prescription) ==
    LET i == _find_by_id(consultation_id) IN
    IF i = 0 THEN Raise("ajouter_prescription", "ConsultationNotFoundError")
    ELSE Commit("ajouter_prescription", i,
                [consultations[i] EXCEPT
                    !.prescriptions = Append(@, _serialize_prescription(prescription))])

\* ------------------------------------------------------ models.Consultation
\* Consultation.__init__: the object's attributes.
Consultation(date_heure, patient, medecin, motif) ==
    [date_heure |-> date_heure, patient |-> patient, medecin |-> medecin,
     motif |-> motif, diagnostic |-> None, prescriptions |-> <<>>,
     statut |-> STATUS_PLANIFIEE]

peut_modifier == entity.statut = STATUS_PLANIFIEE

\* Keyword arguments given to modifier_consultation.
Changes == {[motif |-> "fièvre"], [diagnostic |-> "flu"], [inconnu |-> "x"]}

\* The entity's methods touch neither service nor file nor log.
EntityReturn(op, err) ==
    /\ result' = Outcome(op, err, <<>>)
    /\ UNCHANGED <<patients, consultations, file, log, logFaults>>

\* setattr for each keyword naming an attribute the object has.
modifier_consultation(changes) ==
    IF ~peut_modifier
    THEN /\ EntityReturn("Consultation.modifier_consultation", "RuntimeError")
         /\ UNCHANGED entity
    ELSE /\ entity' = [k \in DOMAIN entity |->
                        IF k \in DOMAIN changes THEN changes[k] ELSE entity[k]]
         /\ EntityReturn("Consultation.modifier_consultation", Ok)

Consultation_marquer_realisee ==
    /\ entity' = [entity EXCEPT !.statut = STATUS_REALISEE]
    /\ EntityReturn("Consultation.marquer_realisee", Ok)

annuler ==
    /\ entity' = [entity EXCEPT !.statut = STATUS_ANNULEE]
    /\ EntityReturn("Consultation.annuler", Ok)

Consultation_ajouter_diagnostic(diagnostic) ==
    IF entity.statut # STATUS_REALISEE
    THEN /\ EntityReturn("Consultation.ajouter_diagnostic", "RuntimeError")
         /\ UNCHANGED entity
    ELSE /\ entity' = [entity EXCEPT !.diagnostic = diagnostic]
         /\ EntityReturn("Consultation.ajouter_diagnostic", Ok)

\* The list holds the Prescription object itself.
Consultation_ajouter_prescription(prescription) ==
    /\ Len(entity.prescriptions) < MaxPrescriptions
    /\ entity' = [entity EXCEPT !.prescriptions = Append(@, prescription)]
    /\ EntityReturn("Consultation.ajouter_prescription", Ok)

\* A data file an earlier session left: one patient and three consultations,
\* 1 completed with a diagnosis and a prescription, 2 cancelled, 3 scheduled.
EarlierSession ==
    [patients |->
        <<PatientJson(Patient(NumA, "Durand", "Alice", <<1980, 2, 29>>, "1 rue A", "0102030405"))>>,
     consultations |->
        <<[id |-> 1, patient_num |-> NumA, date_heure |-> isoformat(9),
           medecin |-> "Dr House", motif |-> "toux", diagnostic |-> "flu",
           prescriptions |->
              <<_serialize_prescription(
                    PrescriptionMedicamenteuse("doliprane", "1g", "3/jour", "5 jours"))>>,
           statut |-> STATUS_REALISEE],
          [id |-> 2, patient_num |-> NumA, date_heure |-> isoformat(9),
           medecin |-> "Dr House", motif |-> "toux", diagnostic |-> None,
           prescriptions |-> <<>>, statut |-> STATUS_ANNULEE],
          [id |-> 3, patient_num |-> NumA, date_heure |-> isoformat(10),
           medecin |-> "Dr House", motif |-> "toux", diagnostic |-> None,
           prescriptions |-> <<>>, statut |-> STATUS_PLANIFIEE]>>]

\* The data file at start-up: the one _dump_empty writes when there is none,
\* or the one of an earlier session.
DataFiles == {_dump_empty, EarlierSession}

\* main(): ps = PatientService(); cs = ConsultationService(patient_service=ps).
\* log holds the lines this session appends to logs.txt.
Init ==
    \E f \in DataFiles :
        /\ patients = PatientService_load(f)
        /\ consultations = ConsultationService_load(f)
        /\ file = f
        /\ log = <<>>
        /\ logFaults = 0
        /\ entity = Consultation(10, NumA, "Dr House", "toux")
        /\ result = Outcome("init", Ok, <<>>)

Next ==
    \/ \E p \in PatientInputs : ajouter_patient(p)
    \/ \E n \in LookupNumbers, dt \in Instants, m \in Medecins, r \in Motifs :
            planifier_consultation(n, dt, m, r)
    \/ \E n \in LookupNumbers : rechercher(n)
    \/ \E now \in Instants : lister(now)
    \/ \E id \in ConsultationIds : marquer_realisee(id)
    \/ \E id \in ConsultationIds : annuler_consultation(id)
    \/ \E id \in ConsultationIds, d \in Diagnostics : ajouter_diagnostic(id, d)
    \/ \E id \in ConsultationIds, p \in PrescriptionInputs : ajouter_prescription(id, p)

Spec == Init /\ [][Next]_vars

\* The same start with a logs.txt that cannot always be written.
InitLogFailure ==
    \E f \in DataFiles :
        /\ patients = PatientService_load(f)
        /\ consultations = ConsultationService_load(f)
        /\ file = f
        /\ log = <<>>
        /\ logFaults = MaxLogFaults
        /\ entity = Consultation(10, NumA, "Dr House", "toux")
        /\ result = Outcome("init", Ok, <<>>)

SpecLogFailure == InitLogFailure /\ [][Next]_vars

\* A data file that holds patients and no consultation: what an earlier
\* session leaves when it only added a patient.
PatientsOnlySession ==
    [patients |->
        <<PatientJson(Patient(NumA, "Durand", "Alice", <<1980, 2, 29>>, "1 rue A", "0102030405"))>>,
     consultations |-> <<>>]

\* A session all of whose consultations are scheduled in it.
InitSession ==
    \E f \in {_dump_empty, PatientsOnlySession} :
        /\ patients = PatientService_load(f)
        /\ consultations = ConsultationService_load(f)
        /\ file = f
        /\ log = <<>>
        /\ logFaults = 0
        /\ entity = Consultation(10, NumA, "Dr House", "toux")
        /\ result = Outcome("init", Ok, <<>>)

SpecSession == InitSession /\ [][Next]_vars

\* A Consultation object constructed and used through its own methods, next
\* to services that hold no data.
InitEntity ==
    /\ patients = PatientService_load(_dump_empty)
    /\ consultations = ConsultationService_load(_dump_empty)
    /\ file = _dump_empty
    /\ log = <<>>
    /\ logFaults = 0
    /\ \E dt \in Instants, m \in Medecins, r \in Motifs :
            entity = Consultation(dt, NumA, m, r)
    /\ result = Outcome("init", Ok, <<>>)

NextEntity ==
    \/ \E ch \in Changes : modifier_consultation(ch)
    \/ Consultation_marquer_realisee
    \/ annuler
    \/ \E d \in Diagnostics : Consultation_ajouter_diagnostic(d)
    \/ \E p \in PrescriptionInputs : Consultation_ajouter_prescription(p)

SpecEntity == InitEntity /\ [][NextEntity]_vars

\* ================================================================== claims
Found(id) == _find_by_id(id) # 0

StatutOf(id) == consultations[_find_by_id(id)].statut

\* C1: once a consultation is 'réalisée' or 'annulée' its status never takes
\* another value; a status only changes from 'planifiée' to 'réalisée' or
\* from 'planifiée' to 'annulée', whatever operation runs on whatever id.
C1_TerminalStatus ==
    [][\A i \in 1..Len(consultations) :
        /\ i <= Len(consultations')
        /\ consultations'[i].id = consultations[i].id
        /\ consultations[i].statut \in {STATUS_REALISEE, STATUS_ANNULEE}
            => consultations'[i].statut = consultations[i].statut
        /\ consultations'[i].statut # consultations[i].statut
            => /\ consultations[i].statut = STATUS_PLANIFIEE
               /\ consultations'[i].statut \in {STATUS_REALISEE, STATUS_ANNULEE}]_vars

\* A completed and a cancelled consultation exist and a status operation
\* has just been refused on one of them.
C1_Witness ==
    /\ \E i \in 1..Len(consultations) : consultations[i].statut = STATUS_REALISEE
    /\ \E i \in 1..Len(consultations) : consultations[i].statut = STATUS_ANNULEE
    /\ result.op \in {"marquer_realisee", "annuler_consultation"}
    /\ result.err = "InvalidConsultationStatusError"

\* C2: ajouter_diagnostic(id, text) on an existing consultation succeeds iff
\* its status is 'réalisée'; on success the diagnosis is exactly text; on a
\* 'planifiée' or 'annulée' consultation it fails with
\* InvalidConsultationStatusError and the collection and the file are unchanged.
C2_Diagnostic ==
    [][\A id \in ConsultationIds, d \in Diagnostics :
        (ajouter_diagnostic(id, d) /\ Found(id)) =>
            IF StatutOf(id) = STATUS_REALISEE
            THEN /\ result'.err = Ok
                 /\ consultations'[_find_by_id(id)].diagnostic = d
                 /\ file'.consultations[_find_by_id(id)].diagnostic = d
                 /\ consultations'[_find_by_id(id)].statut = STATUS_REALISEE
            ELSE /\ result'.err = "InvalidConsultationStatusError"
                 /\ consultations' = consultations
                 /\ file' = file]_vars

\* A diagnosis has been stored, replacing an earlier one or None.
C2_Witness ==
    /\ result.op = "ajouter_diagnostic"
    /\ result.err = Ok
    /\ \E i \in 1..Len(consultations) :
        /\ consultations[i].diagnostic = "angine"
        /\ consultations[i].statut = STATUS_REALISEE

\* C3: marquer_realisee(id) on an 'annulée' consultation fails with
\* InvalidConsultationStatusError and the status stays 'annulée' in memory
\* and in the file; on a 'planifiée' one it succeeds and sets 'réalisée'.
C3_MarquerRealisee ==
    [][\A id \in ConsultationIds :
        (marquer_realisee(id) /\ Found(id)) =>
            /\ StatutOf(id) = STATUS_ANNULEE =>
                /\ result'.err = "InvalidConsultationStatusError"
                /\ consultations'[_find_by_id(id)].statut = STATUS_ANNULEE
                /\ file'.consultations[_find_by_id(id)].statut = STATUS_ANNULEE
            /\ StatutOf(id) = STATUS_PLANIFIEE =>
                /\ result'.err = Ok
                /\ consultations'[_find_by_id(id)].statut = STATUS_REALISEE
                /\ file'.consultations[_find_by_id(id)].statut = STATUS_REALISEE]_vars

\* marquer_realisee has just been refused on a cancelled consultation.
C3_Witness ==
    /\ result.op = "marquer_realisee"
    /\ result.err = "InvalidConsultationStatusError"
    /\ \E i \in 1..Len(consultations) :
        /\ consultations[i].statut = STATUS_ANNULEE
        /\ file.consultations[i].statut = STATUS_ANNULEE

\* C4: annuler_consultation(id) on a 'réalisée' consultation fails with
\* InvalidConsultationStatusError; its status, diagnosis and prescriptions are
\* unchanged in memory and in the file.
C4_AnnulerRealisee ==
    [][\A id \in ConsultationIds :
        (annuler_consultation(id) /\ Found(id) /\ StatutOf(id) = STATUS_REALISEE) =>
            LET i == _find_by_id(id) IN
            /\ result'.err = "InvalidConsultationStatusError"
            /\ consultations'[i].statut = STATUS_REALISEE
            /\ consultations'[i].diagnostic = consultations[i].diagnostic
            /\ consultations'[i].prescriptions = consultations[i].prescriptions
            /\ file'.consultations[i].statut = STATUS_REALISEE
            /\ file'.consultations[i].diagnostic = consultations[i].diagnostic
            /\ file'.consultations[i].prescriptions = consultations[i].prescriptions]_vars

\* A cancel has just been refused on a completed consultation that carries
\* a diagnosis.
C4_Witness ==
    /\ result.op = "annuler_consultation"
    /\ result.err = "InvalidConsultationStatusError"
    /\ \E i \in 1..Len(consultations) :
        /\ consultations[i].statut = STATUS_REALISEE
        /\ consultations[i].diagnostic # None

\* C5: annuler_consultation on an already 'annulée' consultation succeeds,
\* and the collection and the file are what they were after the first cancel.
C5_AnnulerIdempotent ==
    [][\A id \in ConsultationIds :
        (annuler_consultation(id) /\ Found(id) /\ StatutOf(id) = STATUS_ANNULEE) =>
            /\ result'.err = Ok
            /\ consultations' = consultations
            /\ file' = file]_vars

\* A consultation has been scheduled, cancelled, and cancelled again.
C5_Witness ==
    /\ log = <<"annuler_consultation", "annuler_consultation">>
    /\ consultations =
          [EarlierSession.consultations EXCEPT ![3].statut = STATUS_ANNULEE]
    /\ file.consultations = consultations
    /\ result.op = "annuler_consultation"
    /\ result.err = Ok

\* C6: planifier_consultation with a number that is no key of the patient
\* store fails with PatientNotFoundError; the collection, the patients with
\* their back-reference lists and the file are unchanged.
C6_PlanifierUnknownPatient ==
    [][\A n \in LookupNumbers, dt \in Instants, m \in Medecins, r \in Motifs :
        (planifier_consultation(n, dt, m, r)
            /\ \A i \in 1..Len(patients) : patients[i].numero_secu # n) =>
            /\ result'.err = "PatientNotFoundError"
            /\ consultations' = consultations
            /\ patients' = patients
            /\ file' = file]_vars

\* The call has just failed in a store that holds patients and consultations.
C6_Witness ==
    /\ result.op = "planifier_consultation"
    /\ result.err = "PatientNotFoundError"
    /\ patients # <<>>
    /\ consultations # <<>>

\* C7: after a successful planifier_consultation(num, dt, medecin, motif) the
\* returned consultation is the last of the collection, is 'planifiée' with no
\* diagnosis, no prescription and the given number, date-time, physician and
\* reason, and lister_consultations_a_venir() at instant now holds it iff
\* dt >= now.
C7_Planifier ==
    [][\A n \in LookupNumbers, dt \in Instants, m \in Medecins, r \in Motifs :
        (planifier_consultation(n, dt, m, r) /\ result'.err = Ok) =>
            LET c == consultations'[Len(consultations')] IN
            /\ Len(consultations') = Len(consultations) + 1
            /\ result'.ret = <<c>>
            /\ c.statut = STATUS_PLANIFIEE
            /\ c.diagnostic = None
            /\ c.prescriptions = <<>>
            /\ c.patient_num = n
            /\ fromisoformat(c.date_heure) = dt
            /\ c.medecin = m
            /\ c.motif = r
            /\ \A now \in Instants :
                LET L == lister_consultations_a_venir(consultations', now) IN
                (\E k \in 1..Len(L) : L[k] = c) <=> dt >= now]_vars

\* A consultation has just been scheduled at hour 9: upcoming when now is 9,
\* past when now is 10.
C7_Witness ==
    /\ result.op = "planifier_consultation"
    /\ result.err = Ok
    /\ fromisoformat(result.ret[1].date_heure) = 9
    /\ consultations[Len(consultations)] = result.ret[1]

UpcomingAt(c, now) ==
    c.statut = STATUS_PLANIFIEE /\ fromisoformat(c.date_heure) >= now

\* C8: in every state lister_consultations_a_venir() at instant now returns
\* the 'planifiée' consultations whose date-time is >= now, each once and no
\* other, by non-decreasing date-time, and changes neither collection nor file.
C8_Lister ==
    [][\A now \in Instants :
        lister(now) =>
            LET L == result'.ret IN
            /\ \A k \in 1..Len(L) :
                /\ UpcomingAt(L[k], now)
                /\ \E i \in 1..Len(consultations) : consultations[i] = L[k]
            /\ \A i \in 1..Len(consultations) :
                UpcomingAt(consultations[i], now) =>
                    Cardinality({k \in 1..Len(L) : L[k] = consultations[i]}) = 1
            /\ \A k \in 1..(Len(L) - 1) :
                fromisoformat(L[k].date_heure) <= fromisoformat(L[k + 1].date_heure)
            /\ consultations' = consultations
            /\ patients' = patients
            /\ file' = file]_vars

\* The list returned holds two consultations that the collection holds in the
\* opposite order, while others are left out.
C8_Witness ==
    /\ result.op = "lister_consultations_a_venir"
    /\ Len(result.ret) = 2
    /\ result.ret[1].id > result.ret[2].id
    /\ Len(consultations) > 2

PatientFields(p) ==
    <<p.numero_secu, p.nom, p.prenom, p.date_naissance, p.adresse, p.telephone>>

WellFormed(num) == Len(num) = 15 /\ \A i \in 1..Len(num) : num[i] \in AsciiDigit

\* C9: ajouter_patient(p) with a 15-digit number, then any operations that do
\* not add that number again, then rechercher_patient(p.numero_secu): the
\* patient returned has p's number, names, birth date, address and phone.
\* As steps: the add stores p's fields under its number; no other step changes
\* the fields stored under a number; rechercher_patient returns what is stored.
C9_AddThenFind ==
    [][/\ \A p \in PatientInputs :
            (ajouter_patient(p) /\ WellFormed(p.numero_secu)) =>
                /\ DictIndex(patients', p.numero_secu) # 0
                /\ PatientFields(patients'[DictIndex(patients', p.numero_secu)])
                        = PatientFields(p)
       /\ \A n \in SecurityNumbers :
            (/\ rechercher_patient(n) # 0
             /\ ~ \E p \in PatientInputs : p.numero_secu = n /\ ajouter_patient(p)) =>
                /\ DictIndex(patients', n) # 0
                /\ PatientFields(patients'[DictIndex(patients', n)])
                        = PatientFields(patients[rechercher_patient(n)])
       /\ \A n \in LookupNumbers :
            (rechercher(n) /\ rechercher_patient(n) # 0) =>
                /\ result'.err = Ok
                /\ PatientFields(result'.ret[1])
                        = PatientFields(patients[rechercher_patient(n)])]_vars

\* A patient replacing an earlier one of the same number has been added, a
\* consultation scheduled, and the patient found with the fields added.
C9_Witness ==
    /\ log = <<"ajouter_patient", "planifier_consultation">>
    /\ result.op = "rechercher_patient"
    /\ result.err = Ok
    /\ PatientFields(result.ret[1])
            = <<NumA, "Martin", "Bob", <<2001, 11, 5>>, "", "">>
    /\ file.patients[1].nom = "Durand" => Len(file.patients) = 2

\* C10: ajouter_patient with a number whose length is not 15 or that holds a
\* character that is no digit fails with InvalidSecurityNumberError; the
\* patients, the file and the action log are as before the call.
C10_InvalidNumber ==
    [][\A p \in PatientInputs :
        (/\ ajouter_patient(p)
         /\ \/ Len(p.numero_secu) # 15
            \/ \E i \in 1..Len(p.numero_secu) :
                    p.numero_secu[i] \notin AsciiDigit \cup OtherDigit) =>
            /\ result'.err = "InvalidSecurityNumberError"
            /\ patients' = patients
            /\ file' = file
            /\ log' = log]_vars

\* The call has just failed in a store that holds a patient and whose log
\* holds a line.
C10_Witness ==
    /\ result.op = "ajouter_patient"
    /\ result.err = "InvalidSecurityNumberError"
    /\ patients # <<>>
    /\ log # <<>>

\* C11: ajouter_patient succeeds only if the number is exactly 15 characters,
\* each an ASCII digit '0'..'9'; a 15-character number with any other
\* character, a non-ASCII digit included, is rejected with
\* InvalidSecurityNumberError.
C11_AsciiDigitsOnly ==
    [][\A p \in PatientInputs :
        (ajouter_patient(p) /\ ~WellFormed(p.numero_secu)) =>
            /\ result'.err = "InvalidSecurityNumberError"
            /\ patients' = patients
            /\ file' = file]_vars

\* C12: rechercher_patient(n) fails with PatientNotFoundError exactly when n
\* is not the number of a patient in the store; found or not, the in-memory
\* state and the file are left as they were.
C12_Rechercher ==
    [][\A n \in LookupNumbers :
        rechercher(n) =>
            /\ result'.err \in {Ok, "PatientNotFoundError"}
            /\ result'.err = "PatientNotFoundError" <=>
                    (\A i \in 1..Len(patients) : patients[i].numero_secu # n)
            /\ result'.err = Ok =>
                    /\ Len(result'.ret) = 1
                    /\ result'.ret[1].numero_secu = n
            /\ patients' = patients
            /\ consultations' = consultations
            /\ file' = file]_vars

\* A lookup failed although the store holds a patient.
C12_Witness ==
    /\ result.op = "rechercher_patient"
    /\ result.err = "PatientNotFoundError"
    /\ Len(patients) > 0

\* C13: ajouter_patient(p) with a valid number the store already holds raises
\* nothing and replaces the record: the lookup then gives p's field values,
\* the number of stored patients is unchanged, and the file holds exactly one
\* patient record for that number, p's.
C13_Upsert ==
    [][\A p \in PatientInputs :
        (/\ ajouter_patient(p)
         /\ WellFormed(p.numero_secu)
         /\ DictIndex(patients, p.numero_secu) # 0) =>
            /\ result'.err = Ok
            /\ DictIndex(patients', p.numero_secu) # 0
            /\ PatientFields(patients'[DictIndex(patients', p.numero_secu)]) =
                    PatientFields(p)
            /\ Len(patients') = Len(patients)
            /\ Cardinality({j \in 1..Len(file'.patients) :
                    file'.patients[j].numero_secu = p.numero_secu}) = 1
            /\ \A j \in 1..Len(file'.patients) :
                    file'.patients[j].numero_secu = p.numero_secu =>
                        file'.patients[j] = PatientJson(p)]_vars

\* The patient of the earlier session was replaced by another of the same number.
C13_Witness ==
    /\ result.op = "ajouter_patient"
    /\ result.err = Ok
    /\ Len(consultations) = 3
    /\ Len(patients) = 1
    /\ patients[1].nom = "Martin"
    /\ file.patients[1].nom = "Martin"

Keys(l) == [i \in 1..Len(l) |-> l[i].numero_secu]

\* C14: whatever ajouter_patient calls were made, re-adds of a stored number
\* included, lister_patients() returns every stored patient exactly once, in
\* insertion order. As steps: no number appears twice in the list; the add of
\* a new number puts the patient last and keeps the rest; the add of a stored
\* number keeps every number at its position and puts the new values there;
\* no other operation changes the list.
C14_ListerPatients ==
    [][/\ \A i, j \in 1..Len(lister_patients') :
            i # j => lister_patients'[i].numero_secu # lister_patients'[j].numero_secu
       /\ \A p \in PatientInputs :
            (ajouter_patient(p) /\ result'.err = Ok) =>
                IF DictIndex(patients, p.numero_secu) = 0
                THEN lister_patients' = Append(lister_patients, p)
                ELSE /\ Keys(lister_patients') = Keys(lister_patients)
                     /\ \A i \in 1..Len(lister_patients) :
                            lister_patients'[i] =
                                IF lister_patients[i].numero_secu = p.numero_secu
                                THEN p ELSE lister_patients[i]
       /\ result'.op # "ajouter_patient" => Keys(lister_patients') = Keys(lister_patients)
       /\ result'.err # Ok => lister_patients' = lister_patients]_vars

\* The first of two listed patients was added again and is still the first.
C14_Witness ==
    /\ log = <<"ajouter_patient", "ajouter_patient">>
    /\ Len(consultations) = 3
    /\ Len(lister_patients) = 2
    /\ lister_patients[1].numero_secu = NumA
    /\ lister_patients[1].nom = "Martin"

Mutators ==
    {"ajouter_patient", "planifier_consultation", "marquer_realisee",
     "annuler_consultation", "ajouter_diagnostic", "ajouter_prescription"}

\* C15: with the two services sharing one PatientService, after every
\* successful mutating operation of either the file's patients array is the
\* in-memory patients and its consultations array is the in-memory
\* consultations; ajouter_patient leaves the persisted consultations as they
\* were and a consultation mutation leaves the persisted patients as they were.
C15_FileMirrorsMemory ==
    [][(result'.op \in Mutators /\ result'.err = Ok) =>
            /\ file'.patients = [i \in 1..Len(patients') |-> PatientJson(patients'[i])]
            /\ file'.consultations = consultations'
            /\ result'.op = "ajouter_patient" =>
                    file'.consultations = file.consultations
            /\ result'.op # "ajouter_patient" =>
                    file'.patients = file.patients]_vars

\* A patient was added to a file that held consultations, and they are kept.
C15_Witness ==
    /\ result.op = "ajouter_patient"
    /\ result.err = Ok
    /\ Len(file.patients) = 2
    /\ Len(file.consultations) = 3
    /\ file.consultations = consultations

\* C16: in every reachable state, a PatientService and a ConsultationService
\* constructed from the file hold the patients of the in-memory state with the
\* same number, names, birth date, address and phone, and the consultations
\* of the in-memory state with the same id, patient number, date-time,
\* physician, reason, diagnosis, prescription records and status.
C16_RoundTrip ==
    /\ Len(PatientService_load(file)) = Len(patients)
    /\ \A i \in 1..Len(patients) :
            PatientFields(PatientService_load(file)[i]) = PatientFields(patients[i])
    /\ ConsultationService_load(file) = consultations

\* Two patients and four consultations, one with a prescription, are in the
\* file and come back, the birth date parsed from its ISO text.
C16_Witness ==
    /\ Len(file.patients) = 2
    /\ Len(file.consultations) = 4
    /\ PatientService_load(file)[2].date_naissance = <<1980, 2, 29>>
    /\ file.patients[2].date_naissance = date_isoformat(<<1980, 2, 29>>)
    /\ Len(ConsultationService_load(file)[1].prescriptions) = 1
    /\ result.op = "planifier_consultation"
    /\ result.err = Ok

\* C17: planifier_consultation for a stored patient, marquer_realisee(id),
\* ajouter_diagnostic(id, d): the consultation is 'réalisée' with diagnosis d,
\* and once marquer_realisee has succeeded it is in no later
\* lister_consultations_a_venir() result, whatever follows and whatever its
\* date-time. As steps: a successful marquer_realisee leaves the consultation
\* 'réalisée'; ajouter_diagnostic on a 'réalisée' consultation succeeds, stores
\* d and keeps the status; a 'réalisée' consultation stays 'réalisée' with its
\* id on every step; in no state and at no instant does the list hold a
\* 'réalisée' consultation, and lister returns that list.
C17_CompletedScenario ==
    /\ [](\A now \in Instants :
            LET a_venir == lister_consultations_a_venir(consultations, now) IN
            \A i \in 1..Len(consultations), k \in 1..Len(a_venir) :
                consultations[i].statut = STATUS_REALISEE =>
                    a_venir[k].id # consultations[i].id)
    /\ [][/\ \A id \in ConsultationIds :
               (marquer_realisee(id) /\ result'.err = Ok) =>
                   consultations'[_find_by_id(id)].statut = STATUS_REALISEE
          /\ \A id \in ConsultationIds, d \in Diagnostics :
               (ajouter_diagnostic(id, d) /\ Found(id) /\ StatutOf(id) = STATUS_REALISEE) =>
                   /\ result'.err = Ok
                   /\ consultations'[_find_by_id(id)].statut = STATUS_REALISEE
                   /\ consultations'[_find_by_id(id)].diagnostic = d
          /\ \A i \in 1..Len(consultations) :
               consultations[i].statut = STATUS_REALISEE =>
                   /\ Len(consultations') >= i
                   /\ consultations'[i].statut = STATUS_REALISEE
                   /\ consultations'[i].id = consultations[i].id
          /\ \A now \in Instants :
               lister(now) =>
                   result'.ret = lister_consultations_a_venir(consultations, now)]_vars

\* The consultation scheduled for 10 was completed, got its diagnosis, and a
\* later listing is empty.
C17_Witness ==
    /\ log = <<"marquer_realisee", "ajouter_diagnostic">>
    /\ Len(consultations) = 3
    /\ consultations[3].statut = STATUS_REALISEE
    /\ consultations[3].diagnostic = "angine"
    /\ fromisoformat(consultations[3].date_heure) = 10
    /\ result.op = "lister_consultations_a_venir"
    /\ result.ret = <<>>

\* C18: ajouter_prescription(id, presc) on an existing consultation succeeds
\* whether it is 'planifiée', 'réalisée' or 'annulée', appends exactly one
\* record (type tag, description, posology, duration) at the end of its
\* prescription list, keeps the earlier records in their order, and changes
\* neither the status nor the diagnosis.
C18_AjouterPrescription ==
    [][\A id \in ConsultationIds, p \in PrescriptionInputs :
        (ajouter_prescription(id, p) /\ Found(id)) =>
            LET i == _find_by_id(id)
                n == Len(consultations[i].prescriptions)
            IN
            /\ result'.err = Ok
            /\ Len(consultations') = Len(consultations)
            /\ Len(consultations'[i].prescriptions) = n + 1
            /\ SubSeq(consultations'[i].prescriptions, 1, n) =
                    consultations[i].prescriptions
            /\ consultations'[i].prescriptions[n + 1] =
                    [_type |-> p.class, description |-> p.description,
                     posologie |-> p.posologie, duree |-> p.duree]
            /\ consultations'[i].statut = consultations[i].statut
            /\ consultations'[i].diagnostic = consultations[i].diagnostic
            /\ \A j \in 1..Len(consultations) :
                    j # i => consultations'[j] = consultations[j]
            /\ file'.consultations = consultations']_vars

\* An examination was prescribed after the drug of a completed consultation,
\* and a prescription was attached to a cancelled one.
C18_Witness ==
    /\ log = <<"ajouter_prescription", "ajouter_prescription">>
    /\ consultations[1].statut = STATUS_REALISEE
    /\ Len(consultations[1].prescriptions) = 2
    /\ consultations[1].prescriptions[1]._type = "PrescriptionMedicamenteuse"
    /\ consultations[1].prescriptions[2]._type = "PrescriptionExamen"
    /\ consultations[2].statut = STATUS_ANNULEE
    /\ Len(consultations[2].prescriptions) = 1

\* C19: the action log is best-effort: for ajouter_patient and the five
\* ConsultationService mutators, a failure to write the log line is silently
\* ignored, so the call returns normally and its state change is in the file.
C19_LogBestEffort ==
    [][logFaults' < logFaults =>
            /\ result'.op \in Mutators
            /\ result'.err = Ok
            /\ file'.patients = [i \in 1..Len(patients') |-> PatientJson(patients'[i])]
            /\ file'.consultations = consultations']_vars

Absent(id) == \A i \in 1..Len(consultations) : consultations[i].id # id

NotFoundNothingWritten ==
    /\ result'.err = "ConsultationNotFoundError"
    /\ result'.ret = <<>>
    /\ consultations' = consultations
    /\ patients' = patients
    /\ file' = file

\* C20: marquer_realisee, annuler_consultation, ajouter_diagnostic and
\* ajouter_prescription, each called with an id no consultation of the
\* collection has, fail with ConsultationNotFoundError and leave the in-memory
\* collection and the file as they were.
C20_AbsentId ==
    [][\A id \in ConsultationIds :
        Absent(id) =>
            /\ marquer_realisee(id) => NotFoundNothingWritten
            /\ annuler_consultation(id) => NotFoundNothingWritten
            /\ \A d \in Diagnostics :
                    ajouter_diagnostic(id, d) => NotFoundNothingWritten
            /\ \A p \in PrescriptionInputs :
                    ajouter_prescription(id, p) => NotFoundNothingWritten]_vars

\* A prescription was refused for an id that none of three consultations has.
C20_Witness ==
    /\ result.op = "ajouter_prescription"
    /\ result.err = "ConsultationNotFoundError"
    /\ Len(consultations) = 3
    /\ \A i \in 1..Len(consultations) : consultations[i].id \in 1..3
    /\ file.consultations = consultations

\* C21: in every state the store operations reach from an empty store, the
\* patient number of every consultation is the number of a patient in the
\* patient store, and no two consultations have the same id.
C21_ReferencesAndIds ==
    /\ \A i \in 1..Len(consultations) :
            \E j \in 1..Len(patients) :
                patients[j].numero_secu = consultations[i].patient_num
    /\ \A i, k \in 1..Len(consultations) :
            i # k => consultations[i].id # consultations[k].id

\* From the empty store: a patient was added and a consultation scheduled.
C21_Witness ==
    /\ log = <<"ajouter_patient", "planifier_consultation">>
    /\ Len(patients) = 1
    /\ Len(consultations) = 1
    /\ consultations[1].patient_num = patients[1].numero_secu

\* C22: in every state the ConsultationService operations reach from an empty
\* store, a consultation whose diagnosis is not None is 'réalisée': a
\* 'planifiée' or 'annulée' consultation carries no diagnosis.
C22_DiagnosisOnlyCompleted ==
    \A i \in 1..Len(consultations) :
        consultations[i].diagnostic # None =>
            consultations[i].statut = STATUS_REALISEE

\* A consultation was completed and diagnosed in this session, next to a
\* completed one with a diagnosis and a cancelled one without.
C22_Witness ==
    /\ log = <<"marquer_realisee", "ajouter_diagnostic">>
    /\ Len(consultations) = 3
    /\ consultations[3].statut = STATUS_REALISEE
    /\ consultations[3].diagnostic = "flu"
    /\ consultations[2].statut = STATUS_ANNULEE
    /\ consultations[2].diagnostic = None
    /\ consultations[1].diagnostic = "flu"

ConsultationMutators ==
    {"marquer_realisee", "annuler_consultation", "ajouter_diagnostic",
     "ajouter_prescription"}

\* What no mutator writes: id, patient number, date-time, physician, reason.
Identity(c) == <<c.id, c.patient_num, c.date_heure, c.medecin, c.motif>>

\* C23: no store operation removes or reorders a consultation or removes a
\* patient, and a successful marquer_realisee, annuler_consultation,
\* ajouter_diagnostic or ajouter_prescription on id X leaves X's id, patient
\* number, date-time, physician and reason, every field of every other
\* consultation, and all patients as they were.
C23_Frame ==
    [][/\ Len(consultations') >= Len(consultations)
       /\ \A i \in 1..Len(consultations) :
            Identity(consultations'[i]) = Identity(consultations[i])
       /\ Len(patients') >= Len(patients)
       /\ \A j \in 1..Len(patients) :
            patients'[j].numero_secu = patients[j].numero_secu
       /\ (result'.op \in ConsultationMutators /\ result'.err = Ok) =>
            /\ Len(consultations') = Len(consultations)
            /\ patients' = patients
            /\ file'.patients = file.patients
       /\ \A id \in ConsultationIds :
            (/\ result'.err = Ok
             /\ \/ marquer_realisee(id)
                \/ annuler_consultation(id)
                \/ \E d \in Diagnostics : ajouter_diagnostic(id, d)
                \/ \E p \in PrescriptionInputs : ajouter_prescription(id, p)) =>
                \A i \in 1..Len(consultations) :
                    consultations[i].id # id => consultations'[i] = consultations[i]]_vars

\* The cancelled second of three consultations got a prescription.
C23_Witness ==
    /\ result.op = "ajouter_prescription"
    /\ result.err = Ok
    /\ Len(consultations) = 3
    /\ Len(consultations[2].prescriptions) = 1
    /\ consultations[3].statut = STATUS_PLANIFIEE
    /\ Len(log) = 1

\* C24: for a Consultation object, after any sequence of its methods
\* modifier_consultation, marquer_realisee, annuler, ajouter_diagnostic and
\* ajouter_prescription, the diagnosis is not None only if the status is
\* 'réalisée'.
C24_EntityDiagnosis ==
    entity.diagnostic # None => entity.statut = STATUS_REALISEE

\* The ids of the consultations of the collection made for the number num.
ConsultationsOf(num) ==
    LET made == SelectSeq(consultations, LAMBDA c : c.patient_num = num)
    IN [k \in 1..Len(made) |-> made[k].id]

\* C25: in every state of one session, for every stored patient the
\* back-reference list of the patient rechercher_patient returns holds exactly
\* the consultations of the collection made for that patient's number, in
\* scheduling order, also after the patient was added again with the same
\* number.
C25_BackReferences ==
    \A n \in LookupNumbers :
        rechercher_patient(n) # 0 =>
            patients[rechercher_patient(n)].consultations = ConsultationsOf(n)

\* C26: marquer_realisee on a consultation that is already 'réalisée' succeeds
\* and leaves its status 'réalisée' and its diagnosis and prescription list as
\* they were; the collection and the file do not change.
C26_MarquerIdempotent ==
    [][\A id \in ConsultationIds :
        (/\ marquer_realisee(id)
         /\ ~Absent(id)
         /\ \A i \in 1..Len(consultations) :
                consultations[i].id = id => consultations[i].statut = STATUS_REALISEE) =>
            /\ result'.err = Ok
            /\ consultations' = consultations
            /\ file' = file
            /\ \A i \in 1..Len(consultations) :
                    consultations[i].id = id =>
                        /\ consultations'[i].statut = STATUS_REALISEE
                        /\ consultations'[i].diagnostic = consultations[i].diagnostic
                        /\ consultations'[i].prescriptions = consultations[i].prescriptions]_vars

\* The completed consultation, with its diagnosis and prescription, was
\* marked completed again.
C26_Witness ==
    /\ log = <<"marquer_realisee">>
    /\ result.op = "marquer_realisee"
    /\ result.err = Ok
    /\ Len(consultations) = 3
    /\ consultations[3].statut = STATUS_PLANIFIEE
    /\ consultations[1].statut = STATUS_REALISEE
    /\ consultations[1].diagnostic = "flu"
    /\ Len(consultations[1].prescriptions) = 1

====
